---------------------------- MODULE Spec2Model ----------------------------
(***************************************************************************)
(* Model of the traders-portal "company" app: the Company and Watchlist    *)
(* tables (company/models.py), the watchlist and search views              *)
(* (company/views.py) and the CSV importer                                 *)
(* (company/management/commands/import_companies.py).                      *)
(*                                                                         *)
(* Text values are sequences of one-character strings, so that trimming,   *)
(* case folding, substring matching and ordering are computed.  A database *)
(* NULL is the value Null.                                                 *)
(***************************************************************************)
EXTENDS Integers, Sequences, FiniteSets, TLC

VARIABLES
    companies,      \* Company Store: set of rows of table 'companies'
    companyNextId,  \* next auto-increment id of table 'companies'
    watchlist,      \* Watchlist Store: set of rows of table 'watchlist'
    wlNextId,       \* next auto-increment id of table 'watchlist'
    clock,          \* source of added_at (auto_now_add)
    resp,           \* the HTTP response of the latest request, with the request it answers
    slots,          \* in-flight POST /watchlist/ requests (one per worker)
    file,           \* importer: the rows csv.DictReader yields for the file
    fileExists,     \* importer: whether open(csv_file) succeeds
    ipc,            \* importer: position in Command.handle
    pos,            \* importer: number of rows read so far
    buf,            \* importer: the list 'companies' of handle()
    count,          \* importer: the counter 'count' of handle()
    stdout,         \* importer: lines written by the current run
    flushed,        \* importer: the batches passed to bulk_create by the current run
    runs,           \* importer: number of runs started
    completedOnce,  \* importer: some run has reached the final success line
    runStart,       \* importer: the Company Store when the current run started
    qparam,         \* search: the request's query string parameter q
    sresp           \* search: the response of the search view

vars == << companies, companyNextId, watchlist, wlNextId, clock, resp, slots,
           file, fileExists, ipc, pos, buf, count, stdout, flushed, runs,
           completedOnce, runStart, qparam, sresp >>

storeVars == << companies, companyNextId >>
watchVars == << watchlist, wlNextId, clock >>
importVars == << file, fileExists, ipc, pos, buf, count, stdout, flushed, runs,
                 completedOnce, runStart >>
searchVars == << qparam, sresp >>

-----------------------------------------------------------------------------
(* Text *)

Null == << "NULL" >>

Digit == [c \in {"0", "1", "2", "3", "4", "5", "6", "7", "8", "9"} |->
            CASE c = "0" -> 0 [] c = "1" -> 1 [] c = "2" -> 2 [] c = "3" -> 3
              [] c = "4" -> 4 [] c = "5" -> 5 [] c = "6" -> 6 [] c = "7" -> 7
              [] c = "8" -> 8 [] c = "9" -> 9]

DigitChar == [d \in 0..9 |->
                CASE d = 0 -> "0" [] d = 1 -> "1" [] d = 2 -> "2" [] d = 3 -> "3"
                  [] d = 4 -> "4" [] d = 5 -> "5" [] d = 6 -> "6" [] d = 7 -> "7"
                  [] d = 8 -> "8" [] d = 9 -> "9"]

\* str(n) for a natural number n
RECURSIVE Numeral(_)
Numeral(n) ==
    IF n < 10 THEN << DigitChar[n] >>
    ELSE Append(Numeral(n \div 10), DigitChar[n % 10])

\* The code point of the characters the model uses.
Code(c) ==
    CASE c = " " -> 32
      [] c \in DOMAIN Digit -> 48 + Digit[c]
      [] c = "A" -> 65 [] c = "B" -> 66 [] c = "C" -> 67 [] c = "P" -> 80
      [] c = "R" -> 82
      [] c = "a" -> 97 [] c = "b" -> 98 [] c = "c" -> 99 [] c = "p" -> 112
      [] c = "r" -> 114
      [] OTHER -> 63

IsSpace(c) == c = " "

\* Case folding of one character, as the database's case-insensitive LIKE does.
Fold(c) ==
    CASE c = "A" -> "a" [] c = "B" -> "b" [] c = "C" -> "c" [] c = "P" -> "p"
      [] c = "R" -> "r" [] OTHER -> c

FoldText(s) == [i \in 1..Len(s) |-> Fold(s[i])]

\* str.strip(): whitespace removed at both ends.
RECURSIVE LStrip(_)
LStrip(s) ==
    IF s # << >> /\ IsSpace(Head(s)) THEN LStrip(Tail(s)) ELSE s

RECURSIVE RStrip(_)
RStrip(s) ==
    IF s # << >> /\ IsSpace(s[Len(s)]) THEN RStrip(SubSeq(s, 1, Len(s) - 1)) ELSE s

Strip(s) == RStrip(LStrip(s))

\* needle occurs in hay as a contiguous substring (case-sensitive).
Contains(hay, needle) ==
    \E i \in 0..(Len(hay) - Len(needle)) :
        \A j \in 1..Len(needle) : hay[i + j] = needle[j]

\* Field lookup <field>__icontains=needle.  A NULL never matches.
IContains(hay, needle) ==
    /\ hay # Null
    /\ Contains(FoldText(hay), FoldText(needle))

\* s sorts before t (strictly), by code point, shorter prefix first.
RECURSIVE TextLess(_, _)
TextLess(s, t) ==
    IF t = << >> THEN FALSE
    ELSE IF s = << >> THEN TRUE
    ELSE IF Head(s) = Head(t) THEN TextLess(Tail(s), Tail(t))
    ELSE Code(Head(s)) < Code(Head(t))

-----------------------------------------------------------------------------
(* The stores *)

\* A row of table 'companies'.  created_at and updated_at are set by the
\* database layer on insert and read by none of the operations; they are left out.
CompanyRow(id, name, symbol, scripcode) ==
    [id |-> id, company_name |-> name, symbol |-> symbol, scripcode |-> scripcode]

\* A row of table 'watchlist'.
WatchlistRow(id, user, companyId, addedAt) ==
    [id |-> id, user |-> user, company |-> companyId, added_at |-> addedAt]

\* The unique index on scripcode taken to hold NULLs too.
NullsCollide(store, rec) ==
    \E row \in store : row.symbol = rec.symbol \/ row.scripcode = rec.scripcode

\* The unique index on symbol left out.
ConflictOnScripcodeOnly(store, rec) ==
    \E row \in store : rec.scripcode # Null /\ row.scripcode = rec.scripcode

\* unique=True on symbol; unique=True, null=True on scripcode: NULLs never collide.
\* Values collide when they are equal character by character (the comparison of
\* the default database backends).
CompanyConflict(store, rec) ==
    \E row \in store :
        \/ row.symbol = rec.symbol
        \/ (rec.scripcode # Null /\ row.scripcode = rec.scripcode)

\* A table without the unique constraint.
NoConflict(store, user, companyId) == FALSE

\* unique_together = ('user', 'company')
WatchlistConflict(store, user, companyId) ==
    \E row \in store : row.user = user /\ row.company = companyId

\* CompanySerializer: fields = '__all__'
CompanySerializer(row) == row

\* WatchlistSerializer: fields = ['id', 'company', 'added_at'], company embedded.
WatchlistSerializer(row, store) ==
    [id |-> row.id,
     company |-> CompanySerializer(CHOOSE c \in store : c.id = row.company),
     added_at |-> row.added_at]


-----------------------------------------------------------------------------
(* Requests to the watchlist view *)

MaxWatchlistId == 3
MaxWorkers == 2

Users == {"A", "B"}
Anonymous == "anonymous"
Workers == 1..MaxWorkers

\* request.data: the key company_id may be missing; when present its value is
\* given by its text (an integer, a numeric string, or something else).
Missing == [present |-> FALSE, raw |-> << >>]
Given(raw) == [present |-> TRUE, raw |-> raw]
Bodies == {Missing, Given(<< "1" >>), Given(<< "2" >>), Given(<< "3" >>), Given(<< "a" >>)}

\* serializers.IntegerField: the value must read as an integer.
IsIntText(s) == s # << >> /\ \A i \in 1..Len(s) : s[i] \in DOMAIN Digit

RECURSIVE IntOf(_)
IntOf(s) ==
    IF s = << >> THEN 0 ELSE 10 * IntOf(SubSeq(s, 1, Len(s) - 1)) + Digit[s[Len(s)]]

\* AddToWatchlistSerializer(data=request.data).is_valid()
IsValid(body) == body.present /\ IsIntText(body.raw)

\* serializer.validated_data['company_id']
ValidatedCompanyId(body) == IntOf(body.raw)

\* Company.objects.get(id=company_id): the matching rows (none: DoesNotExist).
CompanyGet(store, id) == {c \in store : c.id = id}

\* Watchlist.objects.all(): the filter on the user left out.
FilterAnyUser(store, user) == store

\* Watchlist.objects.filter(user=request.user)
FilterByUser(store, user) == {w \in store : w.user = user}

\* Watchlist.objects.filter(company_id=company_id): the filter on the user left out.
FilterByCompanyOnly(store, user, companyId) == {w \in store : w.company = companyId}

\* Watchlist.objects.filter(user=request.user, company_id=company_id), which is
\* also the lookup of get_or_create(user=request.user, company=company).
FilterByUserCompany(store, user, companyId) ==
    {w \in store : w.user = user /\ w.company = companyId}

\* .order_by('-added_at'): the rows as a sequence, latest first.
RECURSIVE OrderByAddedAtDesc(_)
OrderByAddedAtDesc(rows) ==
    IF rows = {} THEN << >>
    ELSE LET top == CHOOSE w \in rows :
                        \A v \in rows : v.added_at < w.added_at \/ (v.added_at = w.added_at /\ v.id <= w.id)
         IN  << top >> \o OrderByAddedAtDesc(rows \ {top})

Response(op, user, body, status, message, company, items) ==
    [op |-> op, user |-> user, body |-> body, status |-> status,
     message |-> message, company |-> company, count |-> Len(items), items |-> items]

NoResponse == Response("none", Anonymous, Missing, 0, "", Null, << >>)

\* A worker with no request; absent0, disturbed and raced record, for a request
\* in flight, whether its pair was absent when it arrived, whether a DELETE
\* removed the pair's row since, and whether its INSERT was refused.
IdleSlot == [pc |-> "idle", user |-> Anonymous, body |-> Missing, company |-> 0,
             status |-> 0, absent0 |-> FALSE, disturbed |-> FALSE, raced |-> FALSE]

\* The example store of the specification: CIPLA and RELIANCE.
ExampleCompanies ==
    { CompanyRow(1, << "C", "i", "p", "l", "a" >>, << "C", "I", "P", "L", "A" >>,
                 << "5", "0", "0", "0", "8", "7" >>),
      CompanyRow(2, << "R", "e", "l" >>, << "R", "E", "L" >>, Null) }

\* permission_classes = [IsAuthenticated]: an unauthenticated request is refused
\* before the handler runs (401 or 403, by the authentication scheme in use).
\* WatchlistThrottle is an AnonRateThrottle: it counts unauthenticated callers
\* only, and those are refused here first, so no watchlist request is throttled.
Denied(op, body, status) ==
    /\ resp' = Response(op, Anonymous, body, status, "denied", Null, << >>)
    /\ UNCHANGED << storeVars, watchVars, slots, importVars, searchVars >>

\* WatchlistView.get, listing the entries of every user.
ListAll(user) ==
    LET rows == OrderByAddedAtDesc(FilterAnyUser(watchlist, user))
        data == [i \in 1..Len(rows) |-> WatchlistSerializer(rows[i], companies)]
    IN  /\ resp' = Response("list", user, Missing, 200, "", Null, data)
        /\ UNCHANGED << storeVars, watchVars, slots, importVars, searchVars >>

\* WatchlistView.get
List(user) ==
    LET rows == OrderByAddedAtDesc(FilterByUser(watchlist, user))
        data == [i \in 1..Len(rows) |-> WatchlistSerializer(rows[i], companies)]
    IN  /\ resp' = Response("list", user, Missing, 200, "", Null, data)
        /\ UNCHANGED << storeVars, watchVars, slots, importVars, searchVars >>

\* Watchlist.objects.create(user=..., company=...): the store after the INSERT.
\* The caller has established that the unique constraint admits the row.
InsertWatchlistRow(store, user, companyId) ==
    store \cup {WatchlistRow(wlNextId, user, companyId, clock)}

\* WatchlistView.post with create() in place of get_or_create().
AddDuplicating(user, body) ==
    IF ~IsValid(body)
    THEN /\ resp' = Response("add", user, body, 400, "invalid", Null, << >>)
         /\ UNCHANGED << storeVars, watchVars, slots, importVars, searchVars >>
    ELSE LET id == ValidatedCompanyId(body)
             found == CompanyGet(companies, id)
         IN  IF found = {}
             THEN /\ resp' = Response("add", user, body, 404, "Company not found", Null, << >>)
                  /\ UNCHANGED << storeVars, watchVars, slots, importVars, searchVars >>
             ELSE /\ wlNextId <= MaxWatchlistId
                  /\ watchlist' = InsertWatchlistRow(watchlist, user, id)
                  /\ wlNextId' = wlNextId + 1
                  /\ clock' = clock + 1
                  /\ resp' = Response("add", user, body, 201, "added",
                                      CompanySerializer(CHOOSE c \in found : TRUE), << >>)
                  /\ UNCHANGED << storeVars, slots, importVars, searchVars >>

\* WatchlistView.post, run from start to end with no other request in between.
Add(user, body) ==
    IF ~IsValid(body)
    THEN /\ resp' = Response("add", user, body, 400, "invalid", Null, << >>)
         /\ UNCHANGED << storeVars, watchVars, slots, importVars, searchVars >>
    ELSE LET id == ValidatedCompanyId(body)
             found == CompanyGet(companies, id)
         IN  IF found = {}
             THEN /\ resp' = Response("add", user, body, 404, "Company not found", Null, << >>)
                  /\ UNCHANGED << storeVars, watchVars, slots, importVars, searchVars >>
             ELSE IF FilterByUserCompany(watchlist, user, id) # {}
             THEN /\ resp' = Response("add", user, body, 200, "already", Null, << >>)
                  /\ UNCHANGED << storeVars, watchVars, slots, importVars, searchVars >>
             ELSE /\ wlNextId <= MaxWatchlistId
                  /\ watchlist' = InsertWatchlistRow(watchlist, user, id)
                  /\ wlNextId' = wlNextId + 1
                  /\ clock' = clock + 1
                  /\ resp' = Response("add", user, body, 201, "added",
                                      CompanySerializer(CHOOSE c \in found : TRUE), << >>)
                  /\ UNCHANGED << storeVars, slots, importVars, searchVars >>

\* A DELETE that removed rows of (user, companyId) is seen by the POST requests
\* in flight for that pair.
Disturb(ss, gone) ==
    [w \in DOMAIN ss |->
        IF ss[w].pc # "idle" /\ (\E g \in gone : g.user = ss[w].user /\ g.company = ss[w].company)
        THEN [ss[w] EXCEPT !.disturbed = TRUE]
        ELSE ss[w]]

\* WatchlistView.delete, deleting the entries of every user for the company.
RemoveAnyOwner(user, body) ==
    IF ~IsValid(body)
    THEN /\ resp' = Response("remove", user, body, 400, "invalid", Null, << >>)
         /\ UNCHANGED << storeVars, watchVars, slots, importVars, searchVars >>
    ELSE LET id == ValidatedCompanyId(body)
             gone == FilterByCompanyOnly(watchlist, user, id)
         IN  /\ watchlist' = watchlist \ gone
             /\ slots' = Disturb(slots, gone)
             /\ resp' = IF Cardinality(gone) > 0
                        THEN Response("remove", user, body, 200, "removed", Null, << >>)
                        ELSE Response("remove", user, body, 404, "not in watchlist", Null, << >>)
             /\ UNCHANGED << storeVars, wlNextId, clock, importVars, searchVars >>

\* WatchlistView.delete: one DELETE statement.
Remove(user, body) ==
    IF ~IsValid(body)
    THEN /\ resp' = Response("remove", user, body, 400, "invalid", Null, << >>)
         /\ UNCHANGED << storeVars, watchVars, slots, importVars, searchVars >>
    ELSE LET id == ValidatedCompanyId(body)
             gone == FilterByUserCompany(watchlist, user, id)
         IN  /\ watchlist' = watchlist \ gone
             /\ slots' = Disturb(slots, gone)
             /\ resp' = IF Cardinality(gone) > 0
                        THEN Response("remove", user, body, 200, "removed", Null, << >>)
                        ELSE Response("remove", user, body, 404, "not in watchlist", Null, << >>)
             /\ UNCHANGED << storeVars, wlNextId, clock, importVars, searchVars >>

ImportIdle ==
    /\ file = << >>
    /\ fileExists = FALSE
    /\ ipc = "idle"
    /\ pos = 0
    /\ buf = << >>
    /\ count = 0
    /\ stdout = << >>
    /\ flushed = << >>
    /\ runs = 0
    /\ completedOnce = FALSE
    /\ runStart = {}

SearchIdle ==
    /\ qparam = Missing
    /\ sresp = [status |-> 0, count |-> 0, results |-> << >>]

WatchInit ==
    /\ companies = ExampleCompanies
    /\ companyNextId = 3
    /\ watchlist = {}
    /\ wlNextId = 1
    /\ clock = 1
    /\ resp = NoResponse
    /\ slots = [w \in Workers |-> IdleSlot]
    /\ ImportIdle
    /\ SearchIdle

Init == WatchInit

Next ==
    \/ \E u \in Users, b \in Bodies : Add(u, b)
    \/ \E u \in Users, b \in Bodies : Remove(u, b)
    \/ \E u \in Users : List(u)
    \/ \E op \in {"list", "add", "remove"}, b \in Bodies, st \in {401, 403} : Denied(op, b, st)

Spec == Init /\ [][Next]_vars


-----------------------------------------------------------------------------
(* The watchlist view, one request at a time *)

PairRows(store, user, companyId) ==
    {w \in store : w.user = user /\ w.company = companyId}

IsRequestBy(r, op, user) == r.op = op /\ r.user = user

\* C1: two consecutive Add(u, c) calls from a state where (u, c) is absent and c
\* exists: the first answers 201 and leaves one row for (u, c); the second answers
\* 200, leaves the Watchlist Store as it was, and one row for (u, c) remains.
C1_AddTwice ==
    [][\A u \in Users, b \in Bodies :
        (/\ IsValid(b)
         /\ CompanyGet(companies, ValidatedCompanyId(b)) # {}
         /\ IsRequestBy(resp', "add", u)
         /\ resp'.body = b)
        => LET id == ValidatedCompanyId(b)
           IN  /\ PairRows(watchlist, u, id) = {}
                    => /\ resp'.status = 201
                       /\ Cardinality(PairRows(watchlist', u, id)) = 1
               /\ (/\ IsRequestBy(resp, "add", u)
                   /\ resp.status = 201
                   /\ ValidatedCompanyId(resp.body) = id)
                    => /\ resp'.status = 200
                       /\ watchlist' = watchlist
                       /\ Cardinality(PairRows(watchlist', u, id)) = 1]_vars

C1_Witness ==
    /\ resp.op = "add"
    /\ resp.status = 200
    /\ Cardinality(PairRows(watchlist, resp.user, ValidatedCompanyId(resp.body))) = 1

\* C3: Remove(u, company_id) with a valid integer company_id, issued when u has no
\* entry for that company, answers 404 and changes neither the Watchlist Store nor
\* the Company Store, also when other users hold an entry for the company.
C3_RemoveAbsent ==
    [][\A u \in Users, b \in Bodies :
        (/\ IsValid(b)
         /\ IsRequestBy(resp', "remove", u)
         /\ resp'.body = b
         /\ PairRows(watchlist, u, ValidatedCompanyId(b)) = {})
        => /\ resp'.status = 404
           /\ watchlist' = watchlist
           /\ companies' = companies]_vars

C3_Witness ==
    /\ resp.op = "remove"
    /\ resp.status = 404
    /\ \E w \in watchlist :
          w.company = ValidatedCompanyId(resp.body) /\ w.user # resp.user

\* C4: a request of user A (List, Add or Remove) leaves the entries owned by every
\* other user B as they were, and every entry A's List returns is an entry A owns.
C4_Isolation ==
    [][\A a \in Users :
        (resp'.user = a /\ resp'.op \in {"list", "add", "remove"})
        => /\ \A b \in Users \ {a} :
                {w \in watchlist' : w.user = b} = {w \in watchlist : w.user = b}
           /\ resp'.op = "list"
                => \A i \in 1..Len(resp'.items) :
                      \E w \in watchlist : w.id = resp'.items[i].id /\ w.user = a]_vars

C4_Witness ==
    /\ resp.op = "list"
    /\ resp.count >= 1
    /\ \E w \in watchlist : w.user # resp.user

-----------------------------------------------------------------------------
(* The watchlist view with POST requests in flight together.                *)
(* get_or_create(user, company) is a SELECT, then an INSERT, and after an    *)
(* IntegrityError of the INSERT a second SELECT; each statement is a step.   *)

Slot(w) == slots[w]

\* A request arrives at worker w and is validated.
Post(w, user, body) ==
    /\ Slot(w).pc = "idle"
    /\ slots' = [slots EXCEPT ![w] =
                    IF ~IsValid(body)
                    THEN [IdleSlot EXCEPT !.pc = "done", !.user = user, !.body = body,
                                          !.status = 400]
                    ELSE [IdleSlot EXCEPT !.pc = "lookup", !.user = user, !.body = body,
                                          !.company = ValidatedCompanyId(body),
                                          !.absent0 = PairRows(watchlist, user,
                                                               ValidatedCompanyId(body)) = {}]]
    /\ UNCHANGED << storeVars, watchVars, resp, importVars, searchVars >>

\* Company.objects.get(id=company_id)
Lookup(w) ==
    /\ Slot(w).pc = "lookup"
    /\ slots' = [slots EXCEPT ![w] =
                    IF CompanyGet(companies, Slot(w).company) = {}
                    THEN [@ EXCEPT !.pc = "done", !.status = 404]
                    ELSE [@ EXCEPT !.pc = "get"]]
    /\ UNCHANGED << storeVars, watchVars, resp, importVars, searchVars >>

\* get_or_create: the first SELECT.
Get(w) ==
    /\ Slot(w).pc = "get"
    /\ slots' = [slots EXCEPT ![w] =
                    IF FilterByUserCompany(watchlist, Slot(w).user, Slot(w).company) # {}
                    THEN [@ EXCEPT !.pc = "done", !.status = 200]
                    ELSE [@ EXCEPT !.pc = "create"]]
    /\ UNCHANGED << storeVars, watchVars, resp, importVars, searchVars >>

\* get_or_create: the INSERT, refused by the unique constraint (IntegrityError)
\* when a row of the pair exists by now.
Create(w) ==
    /\ Slot(w).pc = "create"
    /\ IF WatchlistConflict(watchlist, Slot(w).user, Slot(w).company)
       THEN /\ slots' = [slots EXCEPT ![w] = [@ EXCEPT !.pc = "reget", !.raced = TRUE]]
            /\ UNCHANGED watchVars
       ELSE /\ wlNextId <= MaxWatchlistId
            /\ watchlist' = InsertWatchlistRow(watchlist, Slot(w).user, Slot(w).company)
            /\ wlNextId' = wlNextId + 1
            /\ clock' = clock + 1
            /\ slots' = [slots EXCEPT ![w] = [@ EXCEPT !.pc = "done", !.status = 201]]
    /\ UNCHANGED << storeVars, resp, importVars, searchVars >>

\* The IntegrityError is not handled: the request ends in a server error.
RegetRaises(w) ==
    /\ Slot(w).pc = "reget"
    /\ slots' = [slots EXCEPT ![w] = [@ EXCEPT !.pc = "done", !.status = 500]]
    /\ UNCHANGED << storeVars, watchVars, resp, importVars, searchVars >>

\* get_or_create: the SELECT after an IntegrityError; when the row is gone again
\* the IntegrityError is raised to the caller and the request ends in a server error.
Reget(w) ==
    /\ Slot(w).pc = "reget"
    /\ slots' = [slots EXCEPT ![w] =
                    IF FilterByUserCompany(watchlist, Slot(w).user, Slot(w).company) # {}
                    THEN [@ EXCEPT !.pc = "done", !.status = 200]
                    ELSE [@ EXCEPT !.pc = "done", !.status = 500]]
    /\ UNCHANGED << storeVars, watchVars, resp, importVars, searchVars >>

ConcNext ==
    \/ \E w \in Workers, u \in Users, b \in Bodies : Post(w, u, b)
    \/ \E w \in Workers : Lookup(w)
    \/ \E w \in Workers : Get(w)
    \/ \E w \in Workers : Create(w)
    \/ \E w \in Workers : Reget(w)
    \/ \E u \in Users, b \in Bodies : Remove(u, b)
    \/ \E u \in Users : List(u)

ConcSpec == WatchInit /\ [][ConcNext]_vars

\* C2: the Watchlist Store holds at most one entry for each (user, company) pair,
\* whatever the requests and however they interleave.
C2_UniquePair ==
    \A v, w \in watchlist : (v.user = w.user /\ v.company = w.company) => v = w

C2_Witness ==
    \E w \in Workers :
        /\ Slot(w).pc = "reget"
        /\ Cardinality(PairRows(watchlist, Slot(w).user, Slot(w).company)) = 1

\* The POST requests for the pair (u, c) that passed validation.
AddsOf(u, c) ==
    {w \in Workers : Slot(w).pc \notin {"idle"} /\ Slot(w).status # 400
                     /\ Slot(w).user = u /\ Slot(w).company = c}

\* C8: Add requests for one (user, company) pair, the company existing and the
\* pair absent when each arrived, with no Remove of the pair meanwhile: every
\* finished request answered 200 or 201, exactly one answered 201, a request that
\* lost the race answered 200, and exactly one row of the pair exists.
C8_ConcurrentAdd ==
    \A u \in Users, c \in companies :
        LET adds == AddsOf(u, c.id)
            done == {w \in adds : Slot(w).pc = "done"}
        IN  (/\ done # {}
             /\ \A w \in adds : Slot(w).absent0 /\ ~Slot(w).disturbed)
            => /\ \A w \in done : Slot(w).status \in {200, 201}
               /\ \A w \in done : Slot(w).raced => Slot(w).status = 200
               /\ Cardinality({w \in done : Slot(w).status = 201}) = 1
               /\ Cardinality(PairRows(watchlist, u, c.id)) = 1

C8_Witness ==
    \E w1, w2 \in Workers :
        /\ w1 # w2
        /\ Slot(w1).pc = "done" /\ Slot(w1).status = 201
        /\ Slot(w2).pc = "done" /\ Slot(w2).status = 200 /\ Slot(w2).raced
        /\ Slot(w1).user = Slot(w2).user /\ Slot(w1).company = Slot(w2).company
        /\ Slot(w1).absent0 /\ Slot(w2).absent0
        /\ ~Slot(w1).disturbed /\ ~Slot(w2).disturbed


-----------------------------------------------------------------------------
(* The importer: manage.py import_companies <csv_file> *)

BatchSize == 500
MaxSmallLen == 2
MaxRuns == 2

\* A row of the CSV file as csv.DictReader yields it; an empty field is << >>.
CsvRow(name, symbol, scripcode) ==
    [company_name |-> name, symbol |-> symbol, scripcode |-> scripcode]

\* Company(company_name=..., symbol=..., scripcode=... or None): an unsaved record.
Company(row) ==
    [company_name |-> row.company_name,
     symbol |-> row.symbol,
     scripcode |-> IF row.scripcode # << >> THEN row.scripcode ELSE Null]

\* INSERT ... ON CONFLICT DO NOTHING of one record: it is inserted unless it
\* collides with a row of the table.
InsertOrIgnore(table, rec) ==
    IF CompanyConflict(table.store, rec) THEN table
    ELSE [store |-> table.store \cup {CompanyRow(table.nextId, rec.company_name,
                                                  rec.symbol, rec.scripcode)},
          nextId |-> table.nextId + 1]

\* Company.objects.bulk_create(batch, ignore_conflicts=True) for the records lo
\* to hi of the batch, in order: the rows inserted earlier by the same statement
\* are rows of the table for the later records.  (The table is looked at before
\* the range is split, so that the records are taken in order.)
RECURSIVE BulkCreateRange(_, _, _, _)
BulkCreateRange(table, batch, lo, hi) ==
    IF lo > hi \/ table.nextId < 1 THEN table
    ELSE IF lo = hi THEN InsertOrIgnore(table, batch[lo])
    ELSE BulkCreateRange(BulkCreateRange(table, batch, lo, (lo + hi) \div 2),
                         batch, (lo + hi) \div 2 + 1, hi)

BulkCreate(store, nextId, batch) ==
    BulkCreateRange([store |-> store, nextId |-> nextId], batch, 1, Len(batch))

Line(kind, n) == [kind |-> kind, n |-> n]

\* with open(csv_file, ...): reader, companies = [], count = 0
Open ==
    /\ ipc = "start"
    /\ IF fileExists
       THEN /\ ipc' = "loop"
            /\ buf' = << >>
            /\ count' = 0
            /\ UNCHANGED stdout
       ELSE /\ ipc' = "exit"
            /\ stdout' = Append(stdout, Line("error", 0))
            /\ UNCHANGED << buf, count >>
    /\ UNCHANGED << storeVars, watchVars, resp, slots, searchVars,
                    file, fileExists, pos, flushed, runs, completedOnce, runStart >>

\* One pass of the for loop, the record of an empty symbol not skipped.
ReadRowNoSkip ==
    /\ ipc = "loop"
    /\ pos < Len(file)
    /\ pos' = pos + 1
    /\ LET row == file[pos + 1]
           companies1 == Append(buf, Company(row))
       IN  /\ count' = count + 1
           /\ IF Len(companies1) >= BatchSize
              THEN LET done == BulkCreate(companies, companyNextId, companies1)
                   IN  /\ companies' = done.store
                       /\ companyNextId' = done.nextId
                       /\ flushed' = Append(flushed, companies1)
                       /\ stdout' = Append(stdout, Line("progress", count + 1))
                       /\ buf' = << >>
              ELSE /\ buf' = companies1
                   /\ UNCHANGED << storeVars, flushed, stdout >>
    /\ UNCHANGED << watchVars, resp, slots, searchVars,
                    file, fileExists, ipc, runs, completedOnce, runStart >>

\* One pass of the for loop: the next row is read; a row with an empty symbol is
\* skipped; otherwise its record is buffered and the buffer is flushed when it
\* holds BatchSize records.
ReadRow ==
    /\ ipc = "loop"
    /\ pos < Len(file)
    /\ pos' = pos + 1
    /\ LET row == file[pos + 1]
           companies1 == Append(buf, Company(row))
       IN  IF row.symbol = << >>
           THEN UNCHANGED << storeVars, buf, count, flushed, stdout >>
           ELSE /\ count' = count + 1
                /\ IF Len(companies1) >= BatchSize
                   THEN LET done == BulkCreate(companies, companyNextId, companies1)
                        IN  /\ companies' = done.store
                            /\ companyNextId' = done.nextId
                            /\ flushed' = Append(flushed, companies1)
                            /\ stdout' = Append(stdout, Line("progress", count + 1))
                            /\ buf' = << >>
                   ELSE /\ buf' = companies1
                        /\ UNCHANGED << storeVars, flushed, stdout >>
    /\ UNCHANGED << watchVars, resp, slots, searchVars,
                    file, fileExists, ipc, runs, completedOnce, runStart >>

\* An exception handler that saves what was buffered before reporting.
ReadFailFlushing ==
    /\ ipc = "loop"
    /\ LET done == BulkCreate(companies, companyNextId, buf)
       IN  /\ companies' = done.store
           /\ companyNextId' = done.nextId
    /\ ipc' = "exit"
    /\ stdout' = Append(stdout, Line("error", 1))
    /\ UNCHANGED << watchVars, resp, slots, searchVars,
                    file, fileExists, pos, buf, count, flushed, runs, completedOnce,
                    runStart >>

\* Reading or parsing the next row raises: except Exception reports and the run
\* ends.  Each bulk_create committed on its own (autocommit): nothing is undone.
ReadFail ==
    /\ ipc = "loop"
    /\ ipc' = "exit"
    /\ stdout' = Append(stdout, Line("error", 1))
    /\ UNCHANGED << storeVars, watchVars, resp, slots, searchVars,
                    file, fileExists, pos, buf, count, flushed, runs, completedOnce,
                    runStart >>

\* The input is exhausted: the remaining records are inserted, the total is read
\* from the table and reported.
Finish ==
    /\ ipc = "loop"
    /\ pos = Len(file)
    /\ LET done == IF buf # << >>
                   THEN BulkCreate(companies, companyNextId, buf)
                   ELSE [store |-> companies, nextId |-> companyNextId]
       IN  /\ companies' = done.store
           /\ companyNextId' = done.nextId
           /\ flushed' = IF buf # << >> THEN Append(flushed, buf) ELSE flushed
           /\ stdout' = (IF buf # << >> THEN Append(stdout, Line("final_batch", 0))
                         ELSE stdout)
                        \o << Line("success", Cardinality(done.store)) >>
    /\ ipc' = "exit"
    /\ completedOnce' = TRUE
    /\ UNCHANGED << watchVars, resp, slots, searchVars,
                    file, fileExists, pos, buf, count, runs, runStart >>

Succeeded == ipc = "exit" /\ stdout # << >> /\ stdout[Len(stdout)].kind = "success"
Failed == ipc = "exit" /\ stdout # << >> /\ stdout[Len(stdout)].kind = "error"

\* The command is run again on the same file after a run that completed.
Rerun ==
    /\ Succeeded
    /\ runs < MaxRuns
    /\ runs' = runs + 1
    /\ ipc' = "start"
    /\ pos' = 0
    /\ buf' = << >>
    /\ count' = 0
    /\ stdout' = << >>
    /\ flushed' = << >>
    /\ runStart' = companies
    /\ UNCHANGED << storeVars, watchVars, resp, slots, searchVars,
                    file, fileExists, completedOnce >>

(* The files *)

Names == { << "C" >>, << "R" >> }
Symbols == { << >>, << "A" >>, << "B" >> }
Scripcodes == { << >>, << "1" >> }
Rows == { CsvRow(n, s, c) : n \in Names, s \in Symbols, c \in Scripcodes }

RECURSIVE SeqsUpTo(_, _)
SeqsUpTo(S, n) ==
    IF n = 0 THEN { << >> }
    ELSE LET shorter == SeqsUpTo(S, n - 1)
         IN  shorter \cup { Append(f, x) : f \in {g \in shorter : Len(g) = n - 1}, x \in S }

SmallFiles == SeqsUpTo(Rows, MaxSmallLen)

\* Rows of distinct symbols and distinct or empty scripcodes, none shared with Rows.
PadRow(i) ==
    CsvRow(<< "P" >> \o Numeral(i % 7), << "P" >> \o Numeral(i),
           IF i % 2 = 0 THEN << >> ELSE << "9" >> \o Numeral(i))

Pad(k) == [i \in 1..k |-> PadRow(i)]

\* Rows put before and after the padding: a record repeated across two batches,
\* a scripcode repeated across two batches, a row that is skipped.
First == CsvRow(<< "C" >>, << "A" >>, << "1" >>)
Firsts == { << >>, << First >> }
Lasts == { << >>, << First >>, << CsvRow(<< "R" >>, << "B" >>, << "1" >>) >>,
           << CsvRow(<< "R" >>, << >>, << >>) >> }

BigFiles == { pre \o Pad(BatchSize) \o suf : pre \in Firsts, suf \in Lasts }

Files == SmallFiles \cup BigFiles

ImportInit ==
    /\ companies = {}
    /\ companyNextId = 1
    /\ watchlist = {}
    /\ wlNextId = 1
    /\ clock = 1
    /\ resp = NoResponse
    /\ slots = [w \in Workers |-> IdleSlot]
    /\ SearchIdle
    /\ \/ file \in Files /\ fileExists = TRUE
       \/ file = << >> /\ fileExists = FALSE
    /\ ipc = "start"
    /\ pos = 0
    /\ buf = << >>
    /\ count = 0
    /\ stdout = << >>
    /\ flushed = << >>
    /\ runs = 1
    /\ completedOnce = FALSE
    /\ runStart = {}

ImportNext ==
    \/ Open
    \/ ReadRow
    \/ ReadFail
    \/ Finish
    \/ Rerun

ImportSpec == ImportInit /\ [][ImportNext]_vars


(* Claims about the importer *)

NonEmptyDistinctSymbols(f) ==
    /\ \A i \in 1..Len(f) : f[i].symbol # << >>
    /\ Cardinality({f[i].symbol : i \in 1..Len(f)}) = Len(f)

DistinctScripcodes(f) ==
    \A i, j \in 1..Len(f) :
        (i < j /\ f[i].scripcode # << >>) => f[i].scripcode # f[j].scripcode

\* C5 as stated: a file of N rows with pairwise distinct non-empty symbols, and
\* any names and scripcodes, imported to the end into an empty Company Store,
\* leaves exactly N rows.
C5_DistinctSymbolsOnly ==
    (Succeeded /\ runs = 1 /\ NonEmptyDistinctSymbols(file))
    => Cardinality(companies) = Len(file)

\* C5, amended: a file of N rows with pairwise distinct non-empty symbols whose
\* non-empty scripcodes are pairwise distinct too, imported to the end into an
\* empty Company Store, leaves exactly N rows.
C5_DistinctKeys ==
    (Succeeded /\ runs = 1 /\ NonEmptyDistinctSymbols(file) /\ DistinctScripcodes(file))
    => Cardinality(companies) = Len(file)

C5_Witness ==
    /\ Succeeded
    /\ runs = 1
    /\ Len(file) > BatchSize
    /\ NonEmptyDistinctSymbols(file)
    /\ DistinctScripcodes(file)
    /\ \E i, j \in 1..Len(file) :
          i < j /\ file[i].scripcode = << >> /\ file[j].scripcode = << >>
    /\ Cardinality(companies) = Len(file)

\* C6: once an import of the file has completed, running the importer on the file
\* again changes no row of the Company Store (none added, removed or modified),
\* and the store holds no symbol and no non-null scripcode twice.
C6_Reimport ==
    /\ [](Succeeded /\ runs >= 2
            => /\ Cardinality({r.symbol : r \in companies}) = Cardinality(companies)
               /\ Cardinality({r.scripcode : r \in {q \in companies : q.scripcode # Null}})
                    = Cardinality({q \in companies : q.scripcode # Null}))
    /\ [][completedOnce => companies' = companies]_vars

C6_Witness ==
    /\ Succeeded
    /\ runs = 2
    /\ Len(flushed) = 2
    /\ companies # {}
    /\ companies = runStart

\* C9: when reading the file fails at some row, the run reports the error and
\* ends; it inserts nothing then or later, what the batches flushed before the
\* failure put in the Company Store stays there, and the run reports no total.
C9_ReadFailure ==
    /\ [](Failed /\ fileExists
            => /\ \A i \in 1..Len(stdout) : stdout[i].kind # "success"
               /\ LET symbols == {r.symbol : r \in companies}
                      codes == {r.scripcode : r \in companies}
                  IN  \A k \in 1..Len(flushed) : \A i \in 1..Len(flushed[k]) :
                         \/ flushed[k][i].symbol \in symbols
                         \/ flushed[k][i].scripcode \in codes \ {Null})
    /\ [][(Failed' /\ fileExists) => (companies' = companies /\ flushed' = flushed)]_vars

C9_Witness ==
    /\ Failed
    /\ fileExists
    /\ flushed # << >>
    /\ buf # << >>

RECURSIVE Concat(_)
Concat(ss) == IF ss = << >> THEN << >> ELSE Head(ss) \o Concat(Tail(ss))

\* The records of the rows with a non-empty symbol, in file order.
Expected(f) ==
    LET kept == SelectSeq(f, LAMBDA r : r.symbol # << >>)
    IN  [i \in 1..Len(kept) |->
            [company_name |-> kept[i].company_name,
             symbol |-> kept[i].symbol,
             scripcode |-> IF kept[i].scripcode = << >> THEN Null ELSE kept[i].scripcode]]

BatchesOk ==
    /\ Concat(flushed) = Expected(file)
    /\ \A k \in 1..Len(flushed) :
          IF k < Len(flushed) THEN Len(flushed[k]) = BatchSize
          ELSE Len(flushed[k]) \in 1..BatchSize

\* C10 as stated: on a run that exhausts its input the batches, in flush order,
\* make up the rows with a non-empty symbol in file order, each once; every batch
\* but the last holds 500 records, the last 1 to 500; and the buffer is empty at
\* the end.
C10_BufferEmpty ==
    Succeeded => (BatchesOk /\ buf = << >>)

\* C10, amended: as stated, but at the end the buffer is empty or still holds
\* the records of the last batch, which the final flush does not clear.
C10_Batches ==
    Succeeded => (BatchesOk /\ (buf = << >> \/ buf = flushed[Len(flushed)]))

C10_Witness ==
    /\ Succeeded
    /\ Len(flushed) = 2
    /\ Len(flushed[2]) < BatchSize
    /\ \E i \in 1..Len(file) : file[i].symbol = << >>
    /\ buf = flushed[2]


-----------------------------------------------------------------------------
(* The search view *)

ResultCap == 50
MaxQueryLen == 2

\* request.GET.get('q', '')
QueryGet(qp) == IF qp.present THEN qp.raw ELSE << >>

\* Q(company_name__icontains=query) | Q(symbol__icontains=query)
QFilter(store, query) ==
    {c \in store : IContains(c.company_name, query) \/ IContains(c.symbol, query)}

\* Q(company_name__icontains=query) & Q(symbol__icontains=query)
QFilterBoth(store, query) ==
    {c \in store : IContains(c.company_name, query) /\ IContains(c.symbol, query)}

\* c comes before d under ORDER BY company_name.  The database leaves the order
\* of rows of equal company_name open; tie says which way it goes in this query.
Before(c, d, tie) ==
    \/ TextLess(c.company_name, d.company_name)
    \/ /\ c.company_name = d.company_name
       /\ IF tie = "asc" THEN c.id <= d.id ELSE c.id >= d.id

\* row put at its place in the sequence sorted, which stays sorted.
InsertRow(row, sorted, tie) ==
    LET p == Cardinality({i \in 1..Len(sorted) : Before(sorted[i], row, tie)})
    IN  SubSeq(sorted, 1, p) \o << row >> \o SubSeq(sorted, p + 1, Len(sorted))

\* .order_by('company_name'): the rows of id k and more are put, one by one, at
\* their place in the sequence sorted so far.
RECURSIVE OrderByNameFrom(_, _, _, _)
OrderByNameFrom(rows, tie, sorted, k) ==
    IF Len(sorted) = Cardinality(rows) THEN sorted
    ELSE LET here == {c \in rows : c.id = k}
         IN  IF here = {} THEN OrderByNameFrom(rows, tie, sorted, k + 1)
             ELSE OrderByNameFrom(rows, tie,
                                  InsertRow(CHOOSE c \in here : TRUE, sorted, tie), k + 1)

OrderByName(rows, tie) == OrderByNameFrom(rows, tie, << >>, 1)

\* [:limit]
Slice(rows, limit) == SubSeq(rows, 1, IF Len(rows) <= limit THEN Len(rows) ELSE limit)

\* CompanySerializer(companies, many=True).data
SerializeMany(rows) == [i \in 1..Len(rows) |-> CompanySerializer(rows[i])]

SearchResponse(status, results) ==
    [status |-> status, count |-> Len(results), results |-> results]

\* CompanySearchView.get, both fields required to match.
SearchBothFields(qp, tie) ==
    LET query == Strip(QueryGet(qp))
    IN  /\ qparam' = qp
        /\ IF query = << >>
           THEN sresp' = SearchResponse(400, << >>)
           ELSE LET found == Slice(OrderByName(QFilterBoth(companies, query), tie), ResultCap)
                IN  sresp' = SearchResponse(200, SerializeMany(found))
        /\ UNCHANGED << storeVars, watchVars, resp, slots, importVars >>

\* throttle_classes = [CompanySearchThrottle]: a caller over the rate of scope
\* 'company_search' is refused before the handler runs.  The rate is set outside
\* this app, so any request may be the one refused.
Throttled(qp) ==
    /\ qparam' = qp
    /\ sresp' = SearchResponse(429, << >>)
    /\ UNCHANGED << storeVars, watchVars, resp, slots, importVars >>

\* CompanySearchView.get
Search(qp, tie) ==
    LET query == Strip(QueryGet(qp))
    IN  /\ qparam' = qp
        /\ IF query = << >>
           THEN sresp' = SearchResponse(400, << >>)
           ELSE LET found == Slice(OrderByName(QFilter(companies, query), tie), ResultCap)
                IN  sresp' = SearchResponse(200, SerializeMany(found))
        /\ UNCHANGED << storeVars, watchVars, resp, slots, importVars >>

(* The stores and queries searched *)

QueryChars == {" ", "p"}
Queries == {Missing, Given(<< "A" >>), Given(<< "A", "P" >>)}
           \cup {Given(q) : q \in SeqsUpTo(QueryChars, MaxQueryLen)}

NamedCompanies ==
    { CompanyRow(1, << "a", " ", "p" >>, << "A", "P" >>, Null),
      CompanyRow(2, << "P", "a" >>, << "B" >>, << "1" >>),
      CompanyRow(3, << "b" >>, << "a", "p" >>, Null) }

\* The rows the importer stores for Pad(k), after the rows of NamedCompanies.
PadCompanies(k) ==
    { CompanyRow(3 + i, Company(PadRow(i)).company_name, Company(PadRow(i)).symbol,
                 Company(PadRow(i)).scripcode) : i \in 1..k }

\* Small stores, and stores of ResultCap - 1 to ResultCap + 2 rows that match "p".
Stores == (SUBSET NamedCompanies)
          \cup { {c \in NamedCompanies : c.id <= n} \cup PadCompanies(ResultCap - 1) :
                    n \in 0..Cardinality(NamedCompanies) }

SearchInit ==
    /\ companies \in Stores
    /\ companyNextId = 1 + Cardinality(companies)
    /\ watchlist = {}
    /\ wlNextId = 1
    /\ clock = 1
    /\ resp = NoResponse
    /\ slots = [w \in Workers |-> IdleSlot]
    /\ ImportIdle
    /\ SearchIdle

SearchNext ==
    \/ \E qp \in Queries, tie \in {"asc", "desc"} : Search(qp, tie)
    \/ \E qp \in Queries : Throttled(qp)

SearchSpec == SearchInit /\ [][SearchNext]_vars

(* Claims about the search view *)

\* q occurs in the company's name or symbol, letter case apart.
Matches(c, q) ==
    \/ Contains(FoldText(c.company_name), FoldText(q))
    \/ Contains(FoldText(c.symbol), FoldText(q))

Min(a, b) == IF a <= b THEN a ELSE b

\* The response lists Min(ResultCap, M) distinct companies that match q, in
\* ascending order of company_name, M the number of companies matching q, and
\* counts them.
ListsMatchesOf(q) ==
    LET M == Cardinality({c \in companies : Matches(c, q)})
        n == Len(sresp.results)
    IN  /\ n = Min(ResultCap, M)
        /\ sresp.count = n
        /\ \A i \in 1..n : sresp.results[i] \in companies /\ Matches(sresp.results[i], q)
        /\ Cardinality({sresp.results[i].id : i \in 1..n}) = n
        /\ \A i \in 1..(n - 1) :
              ~TextLess(sresp.results[i + 1].company_name, sresp.results[i].company_name)

\* C7 as stated: for a non-blank q the result lists min(50, M) companies in
\* ascending company_name, M counting the companies whose name or symbol contains
\* q itself as a case-insensitive substring.
C7_MatchesRawQuery ==
    (sresp.status = 200) => ListsMatchesOf(QueryGet(qparam))

\* C7, amended: the same with q trimmed of leading and trailing whitespace, which
\* is the text the view matches.
C7_MatchesTrimmedQuery ==
    (sresp.status = 200) => ListsMatchesOf(Strip(QueryGet(qparam)))

C7_Witness ==
    /\ sresp.status = 200
    /\ sresp.count = ResultCap
    /\ Cardinality({c \in companies : Matches(c, Strip(QueryGet(qparam)))}) > ResultCap
    /\ Strip(QueryGet(qparam)) # QueryGet(qparam)
    /\ \E i \in 1..(sresp.count - 1) :
          sresp.results[i].company_name = sresp.results[i + 1].company_name

=============================================================================
